---- MODULE Spec2Model ----
(***************************************************************************)
(* Model of code/Streamlit/chatUIStreamlit.py: a Streamlit script that     *)
(* ingests uploaded files into a Chroma collection and answers queries     *)
(* with a retrieval-augmented chat turn.  Streamlit re-executes the whole  *)
(* script on every widget event; session state and external resources      *)
(* (the collection, temporary files on disk) survive between executions.   *)
(*                                                                         *)
(* Texts are sequences of tokens, so that concatenation, join and strip    *)
(* are computed and not assumed.                                           *)
(***************************************************************************)
EXTENDS Integers, Sequences, FiniteSets, TLC

\* ------------------------------------------------------------------ bounds
MaxFiles == 2
MaxVault == 2
MaxHist == 5
MaxStore == 4
MaxTmp == 2
MaxScore == 2
MaxN == 3
MaxBatch == 2
MaxK == 6

\* --------------------------------------------------------- program constants
DefaultTopK == 3
SliderMin == 1
SliderMax == 5
SessionTopK == 3

\* ------------------------------------------------------------------- texts
NL == "\n"
SEP == "\n\nRelevant Context:\n"
Whitespace == {" ", "\n", "\t"}

Range(s) == {s[i] : i \in 1..Len(s)}
Min(a, b) == IF a < b THEN a ELSE b

RECURSIVE lstrip(_)
lstrip(t) == IF t # <<>> /\ Head(t) \in Whitespace THEN lstrip(Tail(t)) ELSE t

RECURSIVE rstrip(_)
rstrip(t) ==
    IF t # <<>> /\ t[Len(t)] \in Whitespace THEN rstrip(SubSeq(t, 1, Len(t) - 1)) ELSE t

\* str.strip()
strip(t) == rstrip(lstrip(t))

\* "\n".join(parts)
RECURSIVE join(_)
join(parts) ==
    IF parts = <<>> THEN <<>>
    ELSE IF Len(parts) = 1 THEN parts[1]
    ELSE parts[1] \o <<NL>> \o join(Tail(parts))

\* inputs of the environment
Queries == {<<"q1">>}
Replies == {<<"r1">>}
AllChunks == << <<"c1", "\n">>, <<" ", "c2">>, <<"c3">>, <<"c4", "\n">>, <<"c5">> >>
Scores == 0..MaxScore
Raised == [raised |-> TRUE, scores |-> <<>>]

\* ------------------------------------------------------------- get_context
\* torch.topk(cos_scores, k)[1]: the indices of the k largest scores, largest
\* first; the order among equal scores is not specified by torch.
topk_smallest(cos_scores, k) ==
    {idx \in [1..k -> DOMAIN cos_scores] :
        /\ \A i, j \in 1..k : i # j => idx[i] # idx[j]
        /\ \A i \in 1..k : \A j \in 1..k : i < j => cos_scores[idx[i]] <= cos_scores[idx[j]]
        /\ \A i \in 1..k : \A m \in DOMAIN cos_scores :
              (\A j \in 1..k : idx[j] # m) => cos_scores[m] >= cos_scores[idx[i]]}

topk(cos_scores, k) ==
    {idx \in [1..k -> DOMAIN cos_scores] :
        /\ \A i, j \in 1..k : i # j => idx[i] # idx[j]
        /\ \A i \in 1..k : \A j \in 1..k : i < j => cos_scores[idx[i]] >= cos_scores[idx[j]]
        /\ \A i \in 1..k : \A m \in DOMAIN cos_scores :
              (\A j \in 1..k : idx[j] # m) => cos_scores[m] <= cos_scores[idx[i]]}

\* The outcomes of get_context(rewritten_input, vault_embeddings, vault_content,
\* top_k).  vault_embeddings is given by its number of rows; embedding is the
\* outcome of ollama.embeddings followed by torch.cosine_similarity: an
\* exception, or one score per row.
get_context(vault_embeddings, vault_content, top_k, embedding) ==
    IF vault_embeddings = 0 THEN {[raised |-> FALSE, value |-> <<>>, indices |-> <<>>]}
    ELSE IF embedding.raised THEN {[raised |-> TRUE, value |-> <<>>, indices |-> <<>>]}
    ELSE LET cos_scores == embedding.scores
             k == Min(top_k, Len(cos_scores))
         IN  {[raised |-> FALSE,
               value |-> [i \in 1..k |-> strip(vault_content[top_indices[i]])],
               indices |-> top_indices] : top_indices \in topk(cos_scores, k)}

Embeddings(n) == {Raised} \cup {[raised |-> FALSE, scores |-> sc] : sc \in [1..n -> Scores]}

\* ------------------------------------------------------------------- state
VARIABLES
    vault,           \* module globals vault_embeddings / vault_content read by chat
    ollama_model,    \* module global ollama_model read by chat
    uploaded_files,  \* st.session_state.uploaded_files
    top_k,           \* st.session_state.top_k
    messages,        \* st.session_state['messages']
    uploader,        \* value of the st.sidebar.file_uploader widget
    slider,          \* value of the "Top K Context" slider widget
    text_input,      \* value of the st.text_input widget
    next_file,       \* identity of the next file the user uploads
    vector_store,    \* the Chroma collection "vault": one record per chunk
    tmp_files,       \* temporary files present on disk
    rendered,        \* chat messages drawn by the latest execution of the script
    run,             \* what the latest execution of the script did
    gc               \* latest direct call of get_context: inputs and outcome

vars == <<vault, ollama_model, uploaded_files, top_k, messages, uploader, slider,
          text_input, next_file, vector_store, tmp_files, rendered, run, gc>>

Unbound == "unbound"
Files == 1..MaxFiles

User(content) == [role |-> "user", content |-> content]
Assistant(content) == [role |-> "assistant", content |-> content]

\* ------------------------------------------------------ add_to_vector_store
IngestOutcomes == {"ok", "load_raises", "split_raises", "add_raises"}

\* splitter.split_documents(loader.load()): the chunks of a file, each carrying
\* the file's name as its source.
chunked_data(file) == [i \in 1..(1 + (file % 2)) |-> [source |-> file]]

\* tempfile.NamedTemporaryFile(delete=False): a name not present on disk
NamedTemporaryFile(disk) == CHOOSE n \in 1..(Cardinality(disk) + 1) : n \notin disk

\* add_to_vector_store(file, vector_store) on io = [store, tmp]; outcome says
\* which of loader.load, split_documents and add_documents raises, if any.
\* The temporary file is unlinked by the last statement only; a raising
\* add_documents is taken to store nothing.
add_to_vector_store(file, io, outcome) ==
    LET tmp_file_path == NamedTemporaryFile(io.tmp)
        written == io.tmp \cup {tmp_file_path}
    IN  IF outcome = "ok"
        THEN [store |-> io.store \o chunked_data(file),
              tmp |-> written \ {tmp_file_path},
              raised |-> FALSE]
        ELSE [store |-> io.store, tmp |-> written, raised |-> TRUE]

\* for new_file in new_files: add_to_vector_store(new_file, vector_store)
\* An exception leaves the loop; acc.attempted lists the files passed so far.
RECURSIVE upload_loop(_, _, _)
upload_loop(new_files, outs, acc) ==
    IF new_files = <<>> \/ acc.raised THEN acc
    ELSE LET r == add_to_vector_store(Head(new_files), [store |-> acc.store, tmp |-> acc.tmp],
                                      Head(outs))
         IN  upload_loop(Tail(new_files), Tail(outs),
                         [store |-> r.store, tmp |-> r.tmp, raised |-> r.raised,
                          attempted |-> Append(acc.attempted, Head(new_files)),
                          failure |-> IF r.raised THEN Head(outs) ELSE "none"])

\* -------------------------------------------------------------------- chat
\* rewrite_query is called only when the history has more than one entry; its
\* third argument is the global ollama_model.
rewrite_query(history_len) ==
    IF history_len > 1
    THEN IF ollama_model = Unbound THEN {"NameError_142"} ELSE {"rewritten", "rewrite_raises"}
    ELSE {"raw"}

\* client.chat.completions.create(model=ollama_model, ...)
completion ==
    IF ollama_model = Unbound
    THEN {[status |-> "NameError_165", content |-> <<>>]}
    ELSE {[status |-> "completion_raises", content |-> <<>>]}
         \cup {[status |-> "ok", content |-> c] : c \in Replies}

Outcome(history, status, response, context) ==
    [history |-> history, status |-> status, response |-> response, context |-> context]

\* chat(user_input, model, top_k, conversation_history): the set of outcomes, each
\* with the history as the call leaves it (the list is mutated in place).
chat(user_input, model, k, conversation_history) ==
    LET appended == Append(conversation_history, User(user_input))
        last == Len(appended)
        augmented(ctx) ==
            IF ctx # <<>> THEN user_input \o <<SEP>> \o join(ctx) ELSE user_input
        with_context(ctx) == [appended EXCEPT ![last].content = augmented(ctx)]
        after_context(ctx) ==
            {IF c.status = "ok"
             THEN Outcome(Append(with_context(ctx), Assistant(c.content)), "ok", c.content, ctx)
             ELSE Outcome(with_context(ctx), c.status, <<>>, ctx) : c \in completion}
        retrieval ==
            IF ~vault.bound
            THEN {Outcome(appended, "NameError_149", <<>>, <<>>)}
            ELSE UNION {UNION {IF g.raised
                               THEN {Outcome(appended, "embedding_raises", <<>>, <<>>)}
                               ELSE after_context(g.value) :
                               g \in get_context(vault.embeddings, vault.content,
                                                 DefaultTopK, e)} :
                        e \in Embeddings(vault.embeddings)}
    IN  UNION {IF rw \in {"NameError_142", "rewrite_raises"}
               THEN {Outcome(appended, rw, <<>>, <<>>)}
               ELSE retrieval : rw \in rewrite_query(last)}

\* ------------------------------------------------------------ the script
Vaults ==
    {[bound |-> FALSE, embeddings |-> 0, content |-> <<>>]}
    \cup {[bound |-> TRUE, embeddings |-> n, content |-> SubSeq(AllChunks, 1, n)] :
             n \in 0..MaxVault}

NoCall == [called |-> FALSE, n |-> 0, k |-> 0, embedding |-> Raised,
           raised |-> FALSE, value |-> <<>>, indices |-> <<>>]

\* The state after the first execution of the script in a new session: the
\* session state is initialised, no widget holds a value.  The module binds
\* neither vault_embeddings / vault_content nor ollama_model: either they are
\* unbound, as in the script run on its own, or the namespace the functions
\* run in supplies all of them.  This is fixed per behaviour.
Init ==
    /\ vault \in Vaults
    /\ ollama_model = IF vault.bound THEN "gemma2:2b" ELSE Unbound
    /\ uploaded_files = <<>>
    /\ top_k = SessionTopK
    /\ messages = <<>>
    /\ uploader = <<>>
    /\ slider = SessionTopK
    /\ text_input = <<>>
    /\ next_file = 1
    /\ vector_store = <<>>
    /\ tmp_files = {}
    /\ rendered = <<>>
    /\ run = [new_files |-> <<>>, attempted |-> <<>>, ingest |-> "none",
              chat |-> "none", k |-> 0, context |-> <<>>]
    /\ gc = NoCall

\* One execution of the script, top to bottom, with the widgets holding
\* files, k and user_input.  An exception ends the execution where it is raised;
\* what was written to the session state and to disk before it stays.
Script(files, k, user_input) ==
    LET new_files == IF files # <<>>
                     THEN SelectSeq(files, LAMBDA f : f \notin Range(uploaded_files))
                     ELSE <<>>
    IN
    \E outs \in [1..Len(new_files) -> IngestOutcomes] :
      LET ing == upload_loop(new_files, outs,
                             [store |-> vector_store, tmp |-> tmp_files, raised |-> FALSE,
                              attempted |-> <<>>, failure |-> "none"])
      IN
      /\ Len(ing.store) <= MaxStore
      /\ Cardinality(ing.tmp) <= MaxTmp
      /\ vector_store' = ing.store
      /\ tmp_files' = ing.tmp
      /\ IF ing.raised
         THEN /\ UNCHANGED <<uploaded_files, top_k, messages>>
              /\ rendered' = <<>>
              /\ run' = [new_files |-> new_files, attempted |-> ing.attempted,
                         ingest |-> ing.failure, chat |-> "none", k |-> 0,
                         context |-> <<>>]
         ELSE /\ uploaded_files' = uploaded_files \o new_files
              /\ top_k' = k
              /\ IF user_input = <<>>
                 THEN /\ UNCHANGED messages
                      /\ rendered' = messages
                      /\ run' = [new_files |-> new_files, attempted |-> ing.attempted,
                                 ingest |-> "none", chat |-> "none", k |-> 0,
                                 context |-> <<>>]
                 ELSE \E r \in chat(user_input, "gemma2:2b", k, messages) :
                      /\ messages' = IF r.status = "ok"
                                     THEN r.history \o <<User(user_input),
                                                         Assistant(r.response)>>
                                     ELSE r.history
                      /\ Len(messages') <= MaxHist
                      /\ rendered' = IF r.status = "ok"
                                     THEN Append(messages, Assistant(r.response))
                                     ELSE messages
                      /\ run' = [new_files |-> new_files, attempted |-> ing.attempted,
                                 ingest |-> "none", chat |-> r.status, k |-> k,
                                 context |-> r.context]

\* ---------------------------------------------------------- widget events
\* The user adds one or more files to the uploader.
UploadFiles ==
    \E n \in 1..MaxBatch :
        /\ next_file + n - 1 <= MaxFiles
        /\ uploader' = uploader \o [i \in 1..n |-> next_file + i - 1]
        /\ next_file' = next_file + n
        /\ Script(uploader', slider, text_input)
        /\ UNCHANGED <<vault, ollama_model, slider, text_input, gc>>

\* The user removes a file from the uploader.
RemoveFile ==
    \E i \in 1..Len(uploader) :
        /\ uploader' = SubSeq(uploader, 1, i - 1) \o SubSeq(uploader, i + 1, Len(uploader))
        /\ Script(uploader', slider, text_input)
        /\ UNCHANGED <<vault, ollama_model, slider, text_input, next_file, gc>>

\* The user moves the "Top K Context" slider.
MoveSlider ==
    \E k \in SliderMin..SliderMax :
        /\ k # slider
        /\ slider' = k
        /\ Script(uploader, k, text_input)
        /\ UNCHANGED <<vault, ollama_model, uploader, text_input, next_file, gc>>

\* The user enters a query, or clears the text input.
EnterQuery ==
    \E q \in Queries \cup {<<>>} :
        /\ q # text_input
        /\ text_input' = q
        /\ Script(uploader, slider, q)
        /\ UNCHANGED <<vault, ollama_model, uploader, slider, next_file, gc>>

\* The script is executed again with no widget changed.
Rerun ==
    /\ Script(uploader, slider, text_input)
    /\ UNCHANGED <<vault, ollama_model, uploader, slider, text_input, next_file, gc>>

Next == UploadFiles \/ RemoveFile \/ MoveSlider \/ EnterQuery \/ Rerun

Spec == Init /\ [][Next]_vars

\* The session of a user who uploads and removes files and never enters a query.
NextUploads == UploadFiles \/ RemoveFile \/ Rerun

SpecUploads == Init /\ [][NextUploads]_vars

\* The session of a user who enters queries and moves the slider and never
\* uploads a file.
NextChat == EnterQuery \/ MoveSlider \/ Rerun

SpecChat == Init /\ [][NextChat]_vars

\* ------------------------------------------- get_context called directly
\* get_context applied to a store of n chunks, a top_k and an outcome of the
\* embedding call, all drawn from bounded sets.  get_context keeps no state
\* between calls, so one call per behaviour covers every call.
CallGetContext ==
    /\ ~gc.called
    /\ \E n \in 0..MaxN, k \in 1..MaxK :
         \E e \in Embeddings(n) :
            \E g \in get_context(n, SubSeq(AllChunks, 1, n), k, e) :
               gc' = [called |-> TRUE, n |-> n, k |-> k, embedding |-> e,
                      raised |-> g.raised, value |-> g.value, indices |-> g.indices]
    /\ UNCHANGED <<vault, ollama_model, uploaded_files, top_k, messages, uploader,
                   slider, text_input, next_file, vector_store, tmp_files, rendered,
                   run>>

NextGetContext == CallGetContext

SpecGetContext == Init /\ [][NextGetContext]_vars

\* ------------------------------------------------------------- properties
Last(h) == h[Len(h)]
Augmented(content) == SEP \in Range(content)
ChunksOf(f) == {i \in 1..Len(vector_store) : vector_store[i].source = f}

C2_NoTempFileLeft == tmp_files = {}

\* C3: the roles of the conversation history alternate, starting with "user".
C3_RolesAlternate ==
    \A i \in 1..Len(messages) :
        messages[i].role = IF i % 2 = 1 THEN "user" ELSE "assistant"

C5_FailureAbortsOnlyOffendingFile ==
    run.ingest # "none" =>
        /\ run.attempted = run.new_files
        /\ \A i \in 1..(Len(run.attempted) - 1) :
              /\ run.attempted[i] \in Range(uploaded_files)
              /\ ChunksOf(run.attempted[i]) # {}

C7_GetContextTopK ==
    gc.called =>
        /\ gc.n = 0 => ~gc.raised /\ gc.value = <<>>
        /\ ~gc.raised =>
              /\ Len(gc.value) = Min(gc.k, gc.n)
              /\ gc.k > gc.n => {gc.indices[i] : i \in 1..Len(gc.indices)} = 1..gc.n
              /\ \A i \in 1..Len(gc.value) :
                    /\ gc.indices[i] \in 1..gc.n
                    /\ gc.value[i] = strip(AllChunks[gc.indices[i]])
                    /\ \A j \in 1..Len(gc.value) :
                          /\ i # j => gc.indices[i] # gc.indices[j]
                          /\ i < j => gc.embedding.scores[gc.indices[i]]
                                         >= gc.embedding.scores[gc.indices[j]]

\* C7 witness: a call that asks for more chunks than the store holds and
\* returns all of them, and their scores are not all equal.
C7_Witness ==
    /\ gc.called /\ ~gc.raised
    /\ gc.n >= 2 /\ gc.k > gc.n /\ Len(gc.value) = gc.n
    /\ gc.embedding.scores[gc.indices[1]] > gc.embedding.scores[gc.indices[gc.n]]

C10_ChunksStoredOnce ==
    \A f \in Files : Cardinality(ChunksOf(f)) <= Len(chunked_data(f))
====
